---- MODULE Spec2Model ----
(***************************************************************************)
(* A cluster of kafka-log nodes (src/kafka-log/src/main.rs).  Every node   *)
(* runs the loop of main: it reads one message, dispatches on its kind and *)
(* prints zero or more messages.  Messages to peers travel in net; the     *)
(* response main prints last for a client's request is kept in reply.      *)
(*                                                                         *)
(* Two places of the source decide how far a commit round gets:            *)
(*   - the GetUpdates handler answers with ResponseBody::PollOk (line      *)
(*     219).  Its tag poll_ok names no variant of RequestBody, so the      *)
(*     coordinator's serde_json::from_str(&line)? (line 142) fails on it   *)
(*     and main returns.  A get_updates_ok message, which the GetUpdatesOk *)
(*     handler consumes, is printed by no handler: it is an input of the   *)
(*     transport.                                                          *)
(*   - the GetUpdatesOk handler (lines 255-265) is unfinished: it iterates *)
(*     node_ids and builds a Sync whose fields msg_id, offsets and updates *)
(*     are not filled in.  The arm binds in_reply_to and updates only; the *)
(*     model sends msg_id = in_reply_to and the bound updates, and takes   *)
(*     offsets, for which the arm holds no value at all, as any offset map.*)
(*     Nothing is inserted in ongoing_syncs.                               *)
(***************************************************************************)
EXTENDS Integers, Sequences, FiniteSets, Bags, TLC

\* ------------------------------------------------------------- bounds
\* Largest offset a request or a gather reply names.
MaxOff == 1
\* get_updates_ok messages the transport delivers in the whole cluster.
MaxGather == 2
\* CommitOffsets requests handled in the whole cluster.
MaxCommits == 1
\* Inputs handled in the whole cluster: a request of a client counts 1, the
\* g-th get_updates_ok counts g.
MaxOps == 3
\* Broadcast requests handled in the whole cluster of broadcast nodes.
MaxBroadcasts == 2

Nodes == {"n1", "n2"}
Clients == {"c1"}
Keys == {"x", "y"}
Values == {10, 20}
\* msg_id of a CommitOffsets and in_reply_to of a get_updates_ok.  Ids are
\* interchangeable: the g-th round met uses an id of 1..g.
MsgIds == 1..MaxGather
\* msg_id of the other requests of clients.
ReqIds == {3}
\* The nodes that clients address CommitOffsets to, and that the transport
\* delivers gather replies to: the nodes are alike, one coordinator is enough.
Coordinators == {"n1"}

\* The broadcast cluster: its nodes, the values clients broadcast, and the
\* topologies a Topology message may hand out: every neighbour relation on
\* the nodes that is symmetric, without self-loops, and connected.
GossipNodes == {"n1", "n2", "n3"}
Messages == {1, 2}
Reaches(t, n) ==
    LET one == t[n]
        two == one \cup UNION {t[p] : p \in one}
    IN  {n} \cup two
Topologies ==
    {t \in [GossipNodes -> SUBSET GossipNodes] :
        /\ \A n \in GossipNodes : n \notin t[n]
        /\ \A n \in GossipNodes, p \in GossipNodes : p \in t[n] <=> n \in t[p]
        /\ \A n \in GossipNodes : Reaches(t, n) = GossipNodes}

\* ------------------------------------------------------------- data
\* HashMap<K, V>: a function whose domain is the set of keys present.
EmptyMap == [k \in {} |-> 0]

\* A record [i64; 2] is <<offset, value>>.
Records == (0..MaxOff) \X Values

IsSorted(s) == \A i \in 1..(Len(s) - 1) : s[i][1] <= s[i + 1][1]
IsStrict(s) == \A i \in 1..(Len(s) - 1) : s[i][1] < s[i + 1][1]

\* offsets of a CommitOffsets, GetUpdates or Sync: no key or one key.
OffsetMaps == {EmptyMap} \cup UNION {[{k} -> 0..MaxOff] : k \in Keys}
\* offsets of a Poll: any keys, each from offset 0 to one past MaxOff.
PollOffsetMaps == UNION {[D -> 0..(MaxOff + 1)] : D \in SUBSET Keys}

\* updates of a get_updates_ok: no key, or the records of one key in offset
\* order, the record at offset o carrying the value 10 * (o + 1).
UpdRecords == {<<o, 10 * (o + 1)>> : o \in 0..MaxOff}
UpdSeqs == {s \in UNION {[1..l -> UpdRecords] : l \in 1..2} : IsStrict(s)}
UpdateMaps == {EmptyMap} \cup UNION {[{k} -> UpdSeqs] : k \in Keys}

VARIABLES
    uncommited_msgs,   \* node -> HashMap key -> Vec<[i64; 2]>
    commited_msgs,     \* node -> HashMap key -> Vec<[i64; 2]>
    commited_offsets,  \* node -> HashMap key -> i64
    ongoing_syncs,     \* node -> HashMap msg_id -> usize
    halted,            \* node -> main has returned or panicked
    net,               \* messages printed for a peer, not yet read by it
    reply,             \* the response main printed last for a client
    sends,             \* node -> key -> Send requests handled (history)
    applied,           \* node -> key -> records of the Syncs applied (history)
    gathers,           \* get_updates_ok messages delivered (history)
    commits,           \* CommitOffsets requests handled (history)
    ops,               \* inputs handled, weighted as MaxOps says (history)
    acked,             \* node -> round -> peers whose SyncOk the node read (history)
    stale,             \* nodes that applied a Sync at or below a watermark (history)
    \* the broadcast node (src/maelstrom-echo/src/main.rs)
    topology,          \* node -> Vec<String>: the node's neighbours
    messages,          \* node -> HashSet<i64>
    update_msgs,       \* bag of the Update messages printed and not yet read
    asked,             \* <<node, message>> of the Broadcast requests handled (history)
    relayed            \* <<node, sender>> of the Updates a node forwarded (history)

\* The state of the broadcast nodes.
gossipVars == <<topology, messages, update_msgs, asked, relayed>>

\* The state of the kafka-log nodes, reply apart.
logVars == <<uncommited_msgs, commited_msgs, commited_offsets, ongoing_syncs,
             halted, net, sends, applied, gathers, commits, ops, acked, stale>>

vars == <<uncommited_msgs, commited_msgs, commited_offsets, ongoing_syncs,
          halted, net, reply, sends, applied, gathers, commits, ops, acked, stale,
          topology, messages, update_msgs, asked, relayed>>

node_ids == Nodes

NoReply == [type |-> "none"]

\* The closures handed to partition_point: |probe| probe[0] < v (Poll) and
\* |probe| probe[0] <= v (GetUpdates, Sync).
Probe(probe, v, inclusive) ==
    IF inclusive THEN probe[1] <= v ELSE probe[1] < v

\* logs.partition_point(pred): the binary search of the standard library,
\* on the indices left..right (0-based, right excluded).
RECURSIVE PartitionSearch(_, _, _, _, _)
PartitionSearch(logs, v, inclusive, left, right) ==
    IF left >= right THEN left
    ELSE LET mid == left + (right - left) \div 2
         IN  IF Probe(logs[mid + 1], v, inclusive)
             THEN PartitionSearch(logs, v, inclusive, mid + 1, right)
             ELSE PartitionSearch(logs, v, inclusive, left, mid)

partition_point(logs, v, inclusive) ==
    PartitionSearch(logs, v, inclusive, 0, Len(logs))

\* node.X.get(k).unwrap_or(&EMPTY)
GetOrEmpty(m, k) == IF k \in DOMAIN m THEN m[k] ELSE <<>>

\* Mutant of RangeFrom: the predicate probe[0] <= v, off by one.
RangeFromOffByOne(logs, v) ==
    SubSeq(logs, partition_point(logs, v, TRUE) + 1, Len(logs))

\* &logs[logs.partition_point(|probe| probe[0] < v)..]
RangeFrom(logs, v) ==
    SubSeq(logs, partition_point(logs, v, FALSE) + 1, Len(logs))

\* &logs[..logs.partition_point(|probe| probe[0] <= v)]
RangeUpTo(logs, v) ==
    SubSeq(logs, 1, partition_point(logs, v, TRUE))

\* logs.drain(..logs.partition_point(|probe| probe[0] <= v))
DrainUpTo(logs, v) ==
    SubSeq(logs, partition_point(logs, v, TRUE) + 1, Len(logs))

\* stuff.sort_by(|a, b| a[0].cmp(&b[0])): a stable sort on the offset.
RECURSIVE InsertSorted(_, _)
InsertSorted(s, r) ==
    IF s = <<>> THEN <<r>>
    ELSE IF s[Len(s)][1] <= r[1] THEN Append(s, r)
    ELSE Append(InsertSorted(SubSeq(s, 1, Len(s) - 1), r), s[Len(s)])

RECURSIVE SortByOffset(_)
SortByOffset(s) ==
    IF s = <<>> THEN <<>>
    ELSE InsertSorted(SortByOffset(SubSeq(s, 1, Len(s) - 1)), s[Len(s)])

Range(s) == {s[i] : i \in 1..Len(s)}


\* ------------------------------------------------------------- Init
Init ==
    /\ uncommited_msgs = [n \in Nodes |-> EmptyMap]
    /\ commited_msgs = [n \in Nodes |-> EmptyMap]
    /\ commited_offsets = [n \in Nodes |-> EmptyMap]
    /\ ongoing_syncs = [n \in Nodes |-> EmptyMap]
    /\ halted = [n \in Nodes |-> FALSE]
    /\ net = {}
    /\ reply = NoReply
    /\ sends = [n \in Nodes |-> [k \in Keys |-> 0]]
    /\ applied = [n \in Nodes |-> [k \in Keys |-> {}]]
    /\ gathers = 0
    /\ commits = 0
    /\ ops = 0
    /\ acked = [n \in Nodes |-> [r \in MsgIds |-> {}]]
    /\ stale = {}
    /\ topology = [n \in GossipNodes |-> {}]
    /\ messages = [n \in GossipNodes |-> {}]
    /\ update_msgs = EmptyBag
    /\ asked = {}
    /\ relayed = {}

\* ------------------------------------------------------------- handlers
\* The offset the Send handler assigns: last uncommitted offset + 1, or 0.
NextOffset(current) ==
    IF current = <<>> THEN 0 ELSE current[Len(current)][1] + 1

\* RequestBody::Send
Send(n, c, msg_id, key, msg) ==
    /\ ~halted[n]
    /\ ops < MaxOps
    /\ ops' = ops + 1
    /\ LET current == GetOrEmpty(uncommited_msgs[n], key)
           offset == NextOffset(current)
       IN  /\ uncommited_msgs' = [uncommited_msgs EXCEPT ![n] =
                 [k \in DOMAIN @ \cup {key} |->
                    IF k = key THEN Append(current, <<offset, msg>>) ELSE @[k]]]
           /\ reply' = [type |-> "send_ok", src |-> n, dest |-> c,
                        in_reply_to |-> msg_id, offset |-> offset]
    /\ sends' = [sends EXCEPT ![n][key] = @ + 1]
    /\ UNCHANGED <<commited_msgs, commited_offsets, ongoing_syncs, halted, net,
                   applied, gathers, commits, acked, stale>>

\* Mutant of PollMsgs: the Poll reads the uncommitted log.
PollMsgsUncommitted(n, offsets) ==
    [k \in DOMAIN offsets |-> RangeFrom(GetOrEmpty(uncommited_msgs[n], k), offsets[k])]

\* The msgs of a PollOk: per requested key, the committed records from v on.
PollMsgs(n, offsets) ==
    [k \in DOMAIN offsets |-> RangeFrom(GetOrEmpty(commited_msgs[n], k), offsets[k])]

\* RequestBody::Poll
Poll(n, c, msg_id, offsets) ==
    /\ ~halted[n]
    /\ ops < MaxOps
    /\ ops' = ops + 1
    /\ reply' = [type |-> "poll_ok", src |-> n, dest |-> c,
                 in_reply_to |-> msg_id, msgs |-> PollMsgs(n, offsets)]
    /\ UNCHANGED <<uncommited_msgs, commited_msgs, commited_offsets,
                   ongoing_syncs, halted, net, sends, applied, gathers, commits, acked, stale>>

\* Mutant of CommitOffsets: the handler answers at once instead of continue.
CommitOffsetsEager(n, c, msg_id, offsets) ==
    /\ ~halted[n]
    /\ commits < MaxCommits
    /\ msg_id \in 1..(commits + 1)
    /\ ops < MaxOps
    /\ ops' = ops + 1
    /\ net' = net \cup {[type |-> "get_updates", src |-> n, dest |-> node_id,
                         msg_id |-> msg_id, offsets |-> offsets] :
                        node_id \in node_ids}
    /\ reply' = [type |-> "commit_offsets_ok", src |-> n, dest |-> c,
                 in_reply_to |-> msg_id]
    /\ commits' = commits + 1
    /\ UNCHANGED <<uncommited_msgs, commited_msgs, commited_offsets,
                   ongoing_syncs, halted, sends, applied, gathers, acked, stale>>

\* RequestBody::CommitOffsets: one GetUpdates per node of node_ids, this node
\* included, and no response (continue).
CommitOffsets(n, c, msg_id, offsets) ==
    /\ ~halted[n]
    /\ commits < MaxCommits
    /\ msg_id \in 1..(commits + 1)
    /\ ops < MaxOps
    /\ ops' = ops + 1
    /\ net' = net \cup {[type |-> "get_updates", src |-> n, dest |-> node_id,
                         msg_id |-> msg_id, offsets |-> offsets] :
                        node_id \in node_ids}
    /\ commits' = commits + 1
    /\ UNCHANGED <<uncommited_msgs, commited_msgs, commited_offsets,
                   ongoing_syncs, halted, reply, sends, applied, gathers, acked, stale>>

\* Mutant of Snapshot: a key without a watermark is reported as 0.
SnapshotZeroFill(n, keys) ==
    [k \in keys |-> IF k \in DOMAIN commited_offsets[n]
                    THEN commited_offsets[n][k] ELSE 0]

\* keys.iter().filter_map(|&k| node.commited_offsets.get(k).map(|&v| (k, v)))
Snapshot(n, keys) ==
    [k \in keys \cap DOMAIN commited_offsets[n] |-> commited_offsets[n][k]]

\* RequestBody::ListCommittedOffsets
ListCommittedOffsets(n, c, msg_id, keys) ==
    /\ ~halted[n]
    /\ ops < MaxOps
    /\ ops' = ops + 1
    /\ reply' = [type |-> "list_committed_offsets_ok", src |-> n, dest |-> c,
                 in_reply_to |-> msg_id, offsets |-> Snapshot(n, keys),
                 keys |-> keys]
    /\ UNCHANGED <<uncommited_msgs, commited_msgs, commited_offsets,
                   ongoing_syncs, halted, net, sends, applied, gathers, commits, acked, stale>>

\* Mutant of ErrorReq: the handler returns the error from main instead of
\* answering.
ErrorReqAbort(n, c) ==
    /\ ~halted[n]
    /\ ops < MaxOps
    /\ ops' = ops + 1
    /\ halted' = [halted EXCEPT ![n] = TRUE]
    /\ reply' = [type |-> "error", src |-> n, dest |-> c, in_reply_to |-> 0,
                 code |-> 10, text |-> "Boo Not Supported"]
    /\ UNCHANGED <<uncommited_msgs, commited_msgs, commited_offsets,
                   ongoing_syncs, net, sends, applied, gathers, commits, acked, stale>>

\* RequestBody::Error
ErrorReq(n, c) ==
    /\ ~halted[n]
    /\ ops < MaxOps
    /\ ops' = ops + 1
    /\ reply' = [type |-> "error", src |-> n, dest |-> c, in_reply_to |-> 0,
                 code |-> 10, text |-> "Boo Not Supported"]
    /\ UNCHANGED <<uncommited_msgs, commited_msgs, commited_offsets,
                   ongoing_syncs, halted, net, sends, applied, gathers, commits, acked, stale>>

\* The msgs of a gather reply: per requested key, the uncommitted records up to v.
GatherMsgs(n, offsets) ==
    [k \in DOMAIN offsets |-> RangeUpTo(GetOrEmpty(uncommited_msgs[n], k), offsets[k])]

\* Mutant of GetUpdates: the log is looked up with entry(k).or_default(),
\* which creates the missing key.
GetUpdatesEntry(m) ==
    /\ m \in net
    /\ m.type = "get_updates"
    /\ ~halted[m.dest]
    /\ net' = (net \ {m}) \cup
              {[type |-> "poll_ok", src |-> m.dest, dest |-> m.src,
                in_reply_to |-> m.msg_id, msgs |-> GatherMsgs(m.dest, m.offsets)]}
    /\ uncommited_msgs' = [uncommited_msgs EXCEPT ![m.dest] =
          [k \in DOMAIN @ \cup DOMAIN m.offsets |-> GetOrEmpty(@, k)]]
    /\ UNCHANGED <<commited_msgs, commited_offsets,
                   ongoing_syncs, halted, reply, sends, applied, gathers, commits, ops, acked, stale>>

\* RequestBody::GetUpdates: the response is a PollOk, addressed to request.src.
GetUpdates(m) ==
    /\ m \in net
    /\ m.type = "get_updates"
    /\ ~halted[m.dest]
    /\ net' = (net \ {m}) \cup
              {[type |-> "poll_ok", src |-> m.dest, dest |-> m.src,
                in_reply_to |-> m.msg_id, msgs |-> GatherMsgs(m.dest, m.offsets)]}
    /\ UNCHANGED <<uncommited_msgs, commited_msgs, commited_offsets,
                   ongoing_syncs, halted, reply, sends, applied, gathers, commits, ops, acked, stale>>

\* The kinds RequestBody can deserialize among those the nodes print.
Parseable(type) == type \in {"get_updates", "get_updates_ok", "sync", "sync_ok"}

\* let request: Request = serde_json::from_str(&line)?; on a line whose type
\* names no variant of RequestBody: main returns the error.
RecvUnparseable(m) ==
    /\ m \in net
    /\ ~Parseable(m.type)
    /\ ~halted[m.dest]
    /\ net' = net \ {m}
    /\ halted' = [halted EXCEPT ![m.dest] = TRUE]
    /\ UNCHANGED <<uncommited_msgs, commited_msgs, commited_offsets,
                   ongoing_syncs, reply, sends, applied, gathers, commits, ops, acked, stale>>

\* The Syncs the GetUpdatesOk handler prints: one per node of node_ids.
SyncBroadcast(n, msg_id, offsets, updates) ==
    {[type |-> "sync", src |-> n, dest |-> node_id, msg_id |-> msg_id,
      offsets |-> offsets, updates |-> updates] : node_id \in node_ids}

\* RequestBody::GetUpdatesOk, on a get_updates_ok the transport delivers.  The
\* arm holds no value for the Sync's offsets: any offset map.  No response.
GetUpdatesOk(n, in_reply_to, updates) ==
    /\ ~halted[n]
    /\ gathers < MaxGather
    /\ in_reply_to \in 1..(gathers + 1)
    /\ ops + gathers < MaxOps
    /\ ops' = ops + gathers + 1
    /\ \E offsets \in OffsetMaps :
          net' = net \cup SyncBroadcast(n, in_reply_to, offsets, updates)
    /\ gathers' = gathers + 1
    /\ UNCHANGED <<uncommited_msgs, commited_msgs, commited_offsets,
                   ongoing_syncs, halted, reply, sends, applied, commits, acked, stale>>

\* Sync, first loop: drain the uncommitted records of every key of offsets.
DrainAll(uncommited, offsets) ==
    [k \in DOMAIN uncommited |->
        IF k \in DOMAIN offsets THEN DrainUpTo(uncommited[k], offsets[k])
        ELSE uncommited[k]]

\* Mutant of Advance: the incoming offset overwrites the watermark.
AdvanceOverwrite(table, k, v) == v

\* .entry(k).and_modify(|x| *x = v.max(*x)).or_insert(v)
Advance(table, k, v) ==
    IF k \in DOMAIN table THEN (IF v > table[k] THEN v ELSE table[k]) ELSE v

\* Sync, first loop: advance the watermark of every key of offsets.
AdvanceAll(table, offsets) ==
    [k \in DOMAIN table \cup DOMAIN offsets |->
        IF k \in DOMAIN offsets THEN Advance(table, k, offsets[k]) ELSE table[k]]

\* stuff.extend_from_slice(&v); stuff.sort_by(..)
MergeIntoCommitted(stuff, v) == SortByOffset(stuff \o v)

\* Sync, second loop: fold the records of every key of updates.
MergeAll(commited, updates) ==
    [k \in DOMAIN commited \cup DOMAIN updates |->
        IF k \in DOMAIN updates
        THEN MergeIntoCommitted(GetOrEmpty(commited, k), updates[k])
        ELSE commited[k]]

\* Mutant of Sync: a Sync that carries no updates is applied but not
\* acknowledged (continue).
SyncQuietOnEmpty(m) ==
    /\ m \in net
    /\ m.type = "sync"
    /\ ~halted[m.dest]
    /\ uncommited_msgs' = [uncommited_msgs EXCEPT ![m.dest] = DrainAll(@, m.offsets)]
    /\ commited_offsets' = [commited_offsets EXCEPT ![m.dest] = AdvanceAll(@, m.offsets)]
    /\ commited_msgs' = [commited_msgs EXCEPT ![m.dest] = MergeAll(@, m.updates)]
    /\ net' = (net \ {m}) \cup
              (IF m.updates = EmptyMap THEN {}
               ELSE {[type |-> "sync_ok", src |-> m.dest, dest |-> m.src,
                      in_reply_to |-> m.msg_id]})
    /\ applied' = [applied EXCEPT ![m.dest] =
                      [k \in Keys |-> IF k \in DOMAIN m.updates
                                      THEN @[k] \cup Range(m.updates[k]) ELSE @[k]]]
    /\ stale' = IF \E k \in DOMAIN m.offsets \cap DOMAIN commited_offsets[m.dest] :
                      m.offsets[k] <= commited_offsets[m.dest][k]
                 THEN stale \cup {m.dest} ELSE stale
    /\ UNCHANGED <<ongoing_syncs, halted, reply, sends, gathers, commits, ops, acked>>

\* RequestBody::Sync: the response is a SyncOk, addressed to request.src.
Sync(m) ==
    /\ m \in net
    /\ m.type = "sync"
    /\ ~halted[m.dest]
    /\ uncommited_msgs' = [uncommited_msgs EXCEPT ![m.dest] = DrainAll(@, m.offsets)]
    /\ commited_offsets' = [commited_offsets EXCEPT ![m.dest] = AdvanceAll(@, m.offsets)]
    /\ commited_msgs' = [commited_msgs EXCEPT ![m.dest] = MergeAll(@, m.updates)]
    /\ net' = (net \ {m}) \cup
              {[type |-> "sync_ok", src |-> m.dest, dest |-> m.src,
                in_reply_to |-> m.msg_id]}
    /\ applied' = [applied EXCEPT ![m.dest] =
                      [k \in Keys |-> IF k \in DOMAIN m.updates
                                      THEN @[k] \cup Range(m.updates[k]) ELSE @[k]]]
    /\ stale' = IF \E k \in DOMAIN m.offsets \cap DOMAIN commited_offsets[m.dest] :
                      m.offsets[k] <= commited_offsets[m.dest][k]
                 THEN stale \cup {m.dest} ELSE stale
    /\ UNCHANGED <<ongoing_syncs, halted, reply, sends, gathers, commits, ops, acked>>

\* RequestBody::SyncOk: get_mut(&in_reply_to).unwrap() panics on a missing
\* entry; otherwise the counter is decremented and, at zero, a CommitOffsetsOk
\* is the response, addressed to request.src.
SyncOk(m) ==
    /\ m \in net
    /\ m.type = "sync_ok"
    /\ ~halted[m.dest]
    /\ acked' = [acked EXCEPT ![m.dest][m.in_reply_to] = @ \cup {m.src}]
    /\ IF m.in_reply_to \notin DOMAIN ongoing_syncs[m.dest]
       THEN /\ halted' = [halted EXCEPT ![m.dest] = TRUE]
            /\ net' = net \ {m}
            /\ UNCHANGED ongoing_syncs
       ELSE LET sync == ongoing_syncs[m.dest][m.in_reply_to] - 1
            IN  /\ ongoing_syncs' = [ongoing_syncs EXCEPT ![m.dest][m.in_reply_to] = sync]
                /\ net' = (net \ {m}) \cup
                          (IF sync = 0
                           THEN {[type |-> "commit_offsets_ok", src |-> m.dest,
                                  dest |-> m.src, in_reply_to |-> m.in_reply_to]}
                           ELSE {})
                /\ UNCHANGED halted
    /\ UNCHANGED <<uncommited_msgs, commited_msgs, commited_offsets, reply,
                   sends, applied, gathers, commits, ops, stale>>

\* The transport hands a node one of the messages printed for it.
RecvGetUpdates == \E m \in net : GetUpdates(m)
RecvUnparseableLine == \E m \in net : RecvUnparseable(m)
RecvSync == \E m \in net : Sync(m)
RecvSyncOk == \E m \in net : SyncOk(m)

Deliver == RecvGetUpdates \/ RecvUnparseableLine \/ RecvSync \/ RecvSyncOk

Next ==
    \/ \E n \in Nodes, c \in Clients, id \in ReqIds, k \in Keys, v \in Values :
          Send(n, c, id, k, v) /\ UNCHANGED gossipVars
    \/ \E n \in Nodes, c \in Clients, id \in ReqIds, o \in PollOffsetMaps :
          Poll(n, c, id, o) /\ UNCHANGED gossipVars
    \/ \E n \in Coordinators, c \in Clients, id \in MsgIds, o \in OffsetMaps :
          CommitOffsets(n, c, id, o) /\ UNCHANGED gossipVars
    \/ \E n \in Nodes, c \in Clients, id \in ReqIds, ks \in SUBSET Keys :
          ListCommittedOffsets(n, c, id, ks) /\ UNCHANGED gossipVars
    \/ \E n \in Nodes, c \in Clients : ErrorReq(n, c) /\ UNCHANGED gossipVars
    \/ \E n \in Coordinators, id \in MsgIds, u \in UpdateMaps :
          GetUpdatesOk(n, id, u) /\ UNCHANGED gossipVars
    \/ RecvGetUpdates /\ UNCHANGED gossipVars
    \/ RecvUnparseableLine /\ UNCHANGED gossipVars
    \/ RecvSync /\ UNCHANGED gossipVars
    \/ RecvSyncOk /\ UNCHANGED gossipVars

Spec == Init /\ [][Next]_vars

\* Reliable delivery, and every running node reads its inbound messages.
FairSpec == Spec /\ WF_vars(Deliver /\ UNCHANGED gossipVars)

\* ------------------------------------------------------------- broadcast node
\* The Updates a node prints: its whole message set, to every neighbour but
\* itself and the nodes of skip.
UpdatesTo(n, set, skip) ==
    SetToBag({[type |-> "update", src |-> n, dest |-> node_id, messages |-> set] :
              node_id \in (topology[n] \ {n}) \ skip})

\* RequestBody::Broadcast (maelstrom-echo): insert, Update every neighbour,
\* answer BroadcastOk.  A client asks a node for a value once.
Broadcast(n, c, msg_id, message) ==
    /\ Cardinality(asked) < MaxBroadcasts
    /\ <<n, message>> \notin asked
    /\ messages' = [messages EXCEPT ![n] = @ \cup {message}]
    /\ update_msgs' = update_msgs (+) UpdatesTo(n, messages'[n], {})
    /\ reply' = [type |-> "broadcast_ok", src |-> n, dest |-> c,
                 msg_id |-> msg_id, in_reply_to |-> msg_id]
    /\ asked' = asked \cup {<<n, message>>}
    /\ UNCHANGED <<topology, relayed>>
    /\ UNCHANGED logVars

\* Mutant of Update: the grown set is not forwarded.
UpdateKept(m) ==
    /\ BagIn(m, update_msgs)
    /\ messages' = [messages EXCEPT ![m.dest] = @ \cup m.messages]
    /\ update_msgs' = update_msgs (-) SetToBag({m})
    /\ UNCHANGED <<topology, asked, relayed, reply>>
    /\ UNCHANGED logVars

\* RequestBody::Update (maelstrom-echo): extend; if the set grew, Update every
\* neighbour but the sender; no response (continue).
Update(m) ==
    /\ BagIn(m, update_msgs)
    /\ LET len == Cardinality(messages[m.dest])
           grown == messages[m.dest] \cup m.messages
       IN  /\ messages' = [messages EXCEPT ![m.dest] = grown]
           /\ IF Cardinality(grown) # len
              THEN /\ update_msgs' = (update_msgs (-) SetToBag({m})) (+)
                                     UpdatesTo(m.dest, grown, {m.src})
                   /\ relayed' = relayed \cup {<<m.dest, m.src>>}
              ELSE /\ update_msgs' = update_msgs (-) SetToBag({m})
                   /\ UNCHANGED relayed
    /\ UNCHANGED <<topology, asked, reply>>
    /\ UNCHANGED logVars

RecvUpdate == \E m \in BagToSet(update_msgs) : Update(m)

\* The broadcast cluster after Init and Topology: every node holds its
\* neighbours of one connected topology, and no message yet.
GossipInit ==
    /\ uncommited_msgs = [n \in Nodes |-> EmptyMap]
    /\ commited_msgs = [n \in Nodes |-> EmptyMap]
    /\ commited_offsets = [n \in Nodes |-> EmptyMap]
    /\ ongoing_syncs = [n \in Nodes |-> EmptyMap]
    /\ halted = [n \in Nodes |-> FALSE]
    /\ net = {}
    /\ reply = NoReply
    /\ sends = [n \in Nodes |-> [k \in Keys |-> 0]]
    /\ applied = [n \in Nodes |-> [k \in Keys |-> {}]]
    /\ gathers = 0
    /\ commits = 0
    /\ ops = 0
    /\ acked = [n \in Nodes |-> [r \in MsgIds |-> {}]]
    /\ stale = {}
    /\ topology \in Topologies
    /\ messages = [n \in GossipNodes |-> {}]
    /\ update_msgs = EmptyBag
    /\ asked = {}
    /\ relayed = {}

GossipNext ==
    \/ \E n \in GossipNodes, c \in Clients, id \in ReqIds, v \in Messages :
          Broadcast(n, c, id, v)
    \/ RecvUpdate

\* Reliable delivery: every Update printed is read.
GossipSpec == GossipInit /\ [][GossipNext]_vars /\ WF_vars(RecvUpdate)

\* ------------------------------------------------------------- claims
\* The state of the nodes a request of a client may change.
nodeState == <<uncommited_msgs, commited_msgs, commited_offsets, ongoing_syncs,
               halted, net>>

\* C2: on every node and for every key, the n-th Send for the key is answered
\* with offset n - 1, whatever Syncs the node applied between the Sends.
C2_OffsetsGapFree ==
    [][\A n \in Nodes, k \in Keys :
          sends'[n][k] = sends[n][k] + 1 =>
             reply'.type = "send_ok" /\ reply'.offset = sends[n][k]]_vars

\* A step in which a node answered a request of a client with a response of
\* the given type: of the inputs counted in ops, the ones that are neither a
\* CommitOffsets nor a get_updates_ok are answered.
IsAnswer(type) ==
    /\ ops' = ops + 1 /\ commits' = commits /\ gathers' = gathers
    /\ reply'.type = type

\* A step in which a node answered a Poll.
IsPollStep == IsAnswer("poll_ok")

\* The offset maps a Poll answered with reply' may have asked for.
PolledOffsets ==
    {o \in PollOffsetMaps :
        /\ DOMAIN o = DOMAIN reply'.msgs
        /\ Poll(reply'.src, reply'.dest, reply'.in_reply_to, o)}

\* C3: a Poll returns, for every key, only records that a Sync applied at the
\* polled node carried; the records a Send appended stay out until then.
C3_UncommittedInvisible ==
    [][IsPollStep =>
          /\ PolledOffsets # {}
          /\ \A k \in DOMAIN reply'.msgs :
                Range(reply'.msgs[k]) \subseteq applied[reply'.src][k]]_vars

\* C3 witness: a Poll answered with no record for a key of which the node
\* holds an uncommitted record at or above the polled offset 0.
C3_Witness ==
    /\ reply.type = "poll_ok"
    /\ \E k \in DOMAIN reply.msgs :
          /\ reply.msgs[k] = <<>>
          /\ GetOrEmpty(uncommited_msgs[reply.src], k) # <<>>
          /\ applied[reply.src][k] = {}

\* The committed records of key k at node n with offset >= o, in log order.
CommittedFrom(n, k, o) ==
    LET AtLeast(r) == r[1] >= o
    IN  SelectSeq(GetOrEmpty(commited_msgs[n], k), AtLeast)

\* C4: a Poll returns for every requested key exactly the committed records
\* with offset >= the requested one, in non-decreasing offset order.
C4_PollExact ==
    [][IsPollStep =>
          /\ PolledOffsets # {}
          /\ \A o \in PolledOffsets : \A k \in DOMAIN o :
                /\ reply'.msgs[k] = CommittedFrom(reply'.src, k, o[k])
                /\ IsSorted(reply'.msgs[k])]_vars

\* C4 witness: a Poll answered with some but not all committed records of a key.
C4_Witness ==
    /\ reply.type = "poll_ok"
    /\ \E k \in DOMAIN reply.msgs :
          /\ reply.msgs[k] # <<>>
          /\ Len(reply.msgs[k]) < Len(GetOrEmpty(commited_msgs[reply.src], k))

\* The Syncs of round r that node n broadcast and the SyncOks answering them,
\* as far as they are still on their way.
Outstanding(n, r) ==
    {m \in net : \/ m.type = "sync" /\ m.src = n /\ m.msg_id = r
                 \/ m.type = "sync_ok" /\ m.dest = n /\ m.in_reply_to = r}

\* C5: while acknowledgements of a round's broadcast are outstanding at its
\* coordinator, ongoing_syncs holds the round's counter, at least 1 and at
\* most the number of peers, and no node has stopped over an acknowledgement.
C5_AckCounter ==
    \A n \in Nodes, r \in MsgIds :
       /\ Outstanding(n, r) # {} =>
             /\ r \in DOMAIN ongoing_syncs[n]
             /\ ongoing_syncs[n][r] \in 1..Cardinality(node_ids)
       /\ acked[n][r] # {} => ~halted[n]

\* The CommitOffsetsOk messages printed so far and still to be seen.
CommitOks ==
    {m \in net : m.type = "commit_offsets_ok"} \cup
    (IF reply.type = "commit_offsets_ok" THEN {reply} ELSE {})

\* C7: a CommitOffsetsOk is printed for a round only after the coordinator
\* read a SyncOk of that round from every peer.
C7_NoEarlyReply ==
    \A m \in CommitOks : acked[m.src][m.in_reply_to] = node_ids

\* C7 witness: a round was requested and broadcast, one peer's SyncOk was
\* read, another's was not, and no CommitOffsetsOk exists.
C7_Witness ==
    /\ commits > 0
    /\ \E n \in Nodes, r \in MsgIds :
          acked[n][r] # {} /\ acked[n][r] # node_ids
    /\ CommitOks = {}

\* C8: every CommitOffsets request is followed by a CommitOffsetsOk.
C8_CommitEventuallyReplied ==
    (commits > 0) ~> (CommitOks # {})

\* C9: a watermark never decreases and never disappears; a node's table
\* changes only when the node applies a Sync, and then every key of the Sync
\* gets the maximum of its watermark and the Sync's offset.
C9_WatermarkMonotonic ==
    [][\A n \in Nodes :
          /\ \A k \in DOMAIN commited_offsets[n] :
                /\ k \in DOMAIN commited_offsets'[n]
                /\ commited_offsets'[n][k] >= commited_offsets[n][k]
          /\ commited_offsets'[n] # commited_offsets[n] =>
                \E m \in net :
                   /\ Sync(m) /\ m.dest = n
                   /\ DOMAIN commited_offsets'[n] =
                         DOMAIN commited_offsets[n] \cup DOMAIN m.offsets
                   /\ \A k \in DOMAIN m.offsets :
                         commited_offsets'[n][k] =
                            IF k \in DOMAIN commited_offsets[n]
                               /\ commited_offsets[n][k] >= m.offsets[k]
                            THEN commited_offsets[n][k] ELSE m.offsets[k]
          /\ \A m \in net :
                (/\ m.type = "sync" /\ m.dest = n /\ Sync(m)
                 /\ \A k \in DOMAIN m.offsets :
                       /\ k \in DOMAIN commited_offsets[n]
                       /\ m.offsets[k] <= commited_offsets[n][k])
                => commited_offsets'[n] = commited_offsets[n]]_vars

\* C9 witness: a node applied a Sync whose offset for a key was at or below
\* the key's watermark.
C9_Witness == stale # {}

\* A step in which a node answered a ListCommittedOffsets.
IsListStep == IsAnswer("list_committed_offsets_ok")

\* C10: ListCommittedOffsets answers with exactly the requested keys that
\* have a watermark, each with its watermark, and changes no node state.
C10_ListExact ==
    [][IsListStep =>
          LET n == reply'.src IN
          /\ DOMAIN reply'.offsets = reply'.keys \cap DOMAIN commited_offsets[n]
          /\ \A k \in DOMAIN reply'.offsets :
                reply'.offsets[k] = commited_offsets[n][k]
          /\ UNCHANGED nodeState]_vars

\* C10 witness: asked for x and y, a node with a watermark for x alone
\* answered with x alone.
C10_Witness ==
    /\ reply.type = "list_committed_offsets_ok"
    /\ reply.keys = {"x", "y"}
    /\ DOMAIN reply.offsets = {"x"}
    /\ DOMAIN commited_offsets[reply.src] = {"x"}

\* Two rounds broadcast by node n are in flight with disjoint key sets: Syncs
\* of round r and of round q are on their way and name no common key.
DisjointInFlight(n, r, q) ==
    /\ r # q
    /\ \E mr \in net, mq \in net :
          /\ mr.type = "sync" /\ mr.src = n /\ mr.msg_id = r
          /\ mq.type = "sync" /\ mq.src = n /\ mq.msg_id = q
          /\ DOMAIN mr.offsets # {} /\ DOMAIN mq.offsets # {}
          /\ DOMAIN mr.offsets \cap DOMAIN mq.offsets = {}

\* C11: with two rounds for disjoint key sets in flight at a coordinator, the
\* coordinator reading an acknowledgement of one round decrements that
\* round's counter by one, leaves the other round's counter alone and keeps
\* running.
C11_RoundsIndependent ==
    [][\A n \in Nodes, r \in MsgIds, q \in MsgIds :
          (DisjointInFlight(n, r, q) /\ acked'[n][r] # acked[n][r]) =>
             /\ {r, q} \subseteq DOMAIN ongoing_syncs[n]
             /\ ongoing_syncs'[n] =
                   [ongoing_syncs[n] EXCEPT ![r] = ongoing_syncs[n][r] - 1]
             /\ ~halted'[n]]_vars

\* C12: an Error-tagged input is answered with the one fixed error response,
\* code 10 and the fixed text, addressed to its sender; the logs, the
\* watermarks, the round table and the messages on their way are unchanged
\* and the node keeps running.
C12_ErrorReply ==
    [][IsAnswer("error") =>
          /\ \E n \in Nodes, c \in Clients :
                /\ ~halted[n]
                /\ reply' = [type |-> "error", src |-> n, dest |-> c,
                             in_reply_to |-> 0, code |-> 10,
                             text |-> "Boo Not Supported"]
          /\ UNCHANGED nodeState
          /\ ~halted'[reply'.src]]_vars

\* C12 witness: a running node that holds uncommitted records answered an
\* Error-tagged input and still holds them.
C12_Witness ==
    /\ reply.type = "error"
    /\ reply.code = 10
    /\ ~halted[reply.src]
    /\ uncommited_msgs[reply.src] # EmptyMap

\* Node n holds no entry for key k in any of its three tables.
NeverSeen(n, k) ==
    /\ k \notin DOMAIN uncommited_msgs[n]
    /\ k \notin DOMAIN commited_msgs[n]
    /\ k \notin DOMAIN commited_offsets[n]

\* The tables of a node are the same before and after the step.
TablesUnchanged(n) ==
    /\ uncommited_msgs'[n] = uncommited_msgs[n]
    /\ commited_msgs'[n] = commited_msgs[n]
    /\ commited_offsets'[n] = commited_offsets[n]

\* C13: a Poll and a GetUpdates that name a key the node has never seen are
\* answered, not with an error, with an empty record list for that key, and
\* the key gets no entry in the committed log, the uncommitted log or the
\* watermark table.
C13_MissingKeyRead ==
    [][/\ IsPollStep =>
             \A k \in DOMAIN reply'.msgs :
                NeverSeen(reply'.src, k) =>
                   /\ reply'.msgs[k] = <<>>
                   /\ TablesUnchanged(reply'.src)
                   /\ ~halted'[reply'.src]
       /\ \A m \in net :
             (m.type = "get_updates" /\ GetUpdates(m)) =>
                \A k \in DOMAIN m.offsets :
                   NeverSeen(m.dest, k) =>
                      /\ \E a \in net' :
                            /\ a.type # "error"
                            /\ {"in_reply_to", "msgs"} \subseteq DOMAIN a
                            /\ a.src = m.dest /\ a.dest = m.src
                            /\ a.in_reply_to = m.msg_id
                            /\ DOMAIN a.msgs = DOMAIN m.offsets
                            /\ k \in DOMAIN a.msgs /\ a.msgs[k] = <<>>
                      /\ TablesUnchanged(m.dest)
                      /\ ~halted'[m.dest]]_vars

\* C13 witness: a Poll and a GetUpdates were each answered with an empty
\* list for a key their node has no entry for.
C13_Witness ==
    /\ reply.type = "poll_ok"
    /\ \E k \in DOMAIN reply.msgs :
          NeverSeen(reply.src, k) /\ reply.msgs[k] = <<>>
    /\ \E a \in net :
          /\ a.type = "poll_ok"
          /\ \E k \in DOMAIN a.msgs : NeverSeen(a.src, k) /\ a.msgs[k] = <<>>

\* The gather traffic of round r of coordinator n still on its way: the
\* GetUpdates it printed and the peers' responses to them.
GatherOutstanding(n, r) ==
    {g \in net : \/ g.type = "get_updates" /\ g.src = n /\ g.msg_id = r
                 \/ g.type = "poll_ok" /\ g.dest = n /\ g.in_reply_to = r}

\* C14: a coordinator prints the Syncs of a round only when no gather
\* request or gather reply of the round is still on its way, and then one
\* Sync per peer, all with the same offsets and updates.
C14_BroadcastAfterGather ==
    [][\A m \in net' \ net :
          m.type = "sync" =>
             /\ GatherOutstanding(m.src, m.msg_id) = {}
             /\ \A p \in node_ids :
                   Cardinality({s \in net' \ net :
                                  /\ s.type = "sync" /\ s.src = m.src
                                  /\ s.msg_id = m.msg_id /\ s.dest = p}) = 1]_vars

\* C15: whenever a node reads a SyncOk with in_reply_to = r, ongoing_syncs
\* holds an entry for r with a counter of at least 1, and the counter stays at
\* or above zero.
C15_InsertBeforeAwait ==
    [][\A m \in net :
          (m.type = "sync_ok" /\ SyncOk(m)) =>
             /\ m.in_reply_to \in DOMAIN ongoing_syncs[m.dest]
             /\ ongoing_syncs[m.dest][m.in_reply_to] >= 1
             /\ ongoing_syncs'[m.dest][m.in_reply_to] >= 0]_vars

\* C17: every record a Sync removes from a node's uncommitted log of a key
\* is in the node's committed log of the key once the Sync is applied.
C17_NoRecordLost ==
    [][\A m \in net :
          (m.type = "sync" /\ Sync(m)) =>
             \A k \in DOMAIN uncommited_msgs[m.dest] :
                (Range(uncommited_msgs[m.dest][k]) \
                     Range(uncommited_msgs'[m.dest][k]))
                  \subseteq Range(GetOrEmpty(commited_msgs'[m.dest], k))]_vars

\* C18: on every node and for every key, the uncommitted and the committed
\* log are strictly increasing by offset.
C18_StrictlyIncreasing ==
    \A n \in Nodes, k \in Keys :
       /\ IsStrict(GetOrEmpty(uncommited_msgs[n], k))
       /\ IsStrict(GetOrEmpty(commited_msgs[n], k))

\* The records of log s with an offset above v, in log order.
Above(s, v) ==
    LET Beyond(r) == r[1] > v
    IN  SelectSeq(s, Beyond)

\* C19: a node that reads a Sync, in that one step, drops from the
\* uncommitted log of every key of offsets the records at or below the key's
\* offset, gives every such key a watermark at or above that offset, folds
\* every key of updates into the committed log in offset order, and prints
\* exactly one SyncOk, to the sender and with in_reply_to = the Sync's msg_id.
C19_SyncApplied ==
    [][\A m \in net :
          (m.type = "sync" /\ Sync(m)) =>
             LET n == m.dest IN
             /\ DOMAIN uncommited_msgs'[n] = DOMAIN uncommited_msgs[n]
             /\ \A k \in DOMAIN uncommited_msgs[n] :
                   uncommited_msgs'[n][k] =
                      IF k \in DOMAIN m.offsets
                      THEN Above(uncommited_msgs[n][k], m.offsets[k])
                      ELSE uncommited_msgs[n][k]
             /\ \A k \in DOMAIN m.offsets :
                   /\ k \in DOMAIN commited_offsets'[n]
                   /\ commited_offsets'[n][k] >= m.offsets[k]
             /\ DOMAIN commited_msgs'[n] = DOMAIN commited_msgs[n] \cup DOMAIN m.updates
             /\ \A k \in DOMAIN commited_msgs'[n] :
                   IF k \in DOMAIN m.updates
                   THEN LET old == GetOrEmpty(commited_msgs[n], k)
                            new == commited_msgs'[n][k]
                        IN  /\ Len(new) = Len(old) + Len(m.updates[k])
                            /\ Range(new) = Range(old) \cup Range(m.updates[k])
                            /\ IsSorted(old) => IsSorted(new)
                   ELSE commited_msgs'[n][k] = commited_msgs[n][k]
             /\ net' = (net \ {m}) \cup
                       {[type |-> "sync_ok", src |-> n, dest |-> m.src,
                         in_reply_to |-> m.msg_id]}
             /\ ~halted'[n]]_vars

\* C19 witness: a node that had appended records for a key applied a Sync
\* which drained them, committed records of the key and gave the key a
\* watermark, and its SyncOk is on its way.
C19_Witness ==
    \E a \in net, k \in Keys :
       /\ a.type = "sync_ok"
       /\ sends[a.src][k] > 0
       /\ uncommited_msgs[a.src][k] = <<>>
       /\ GetOrEmpty(commited_msgs[a.src], k) # <<>>
       /\ k \in DOMAIN commited_offsets[a.src]

Quiet == update_msgs = EmptyBag

\* Every node holds every value a Broadcast request carried.
Converged ==
    \A n \in GossipNodes : messages[n] = {a[2] : a \in asked}

\* The Update messages of which the step printed a copy.
Printed ==
    {a \in BagToSet(update_msgs') :
        CopiesIn(a, update_msgs') > CopiesIn(a, update_msgs)}

\* C21: on the broadcast nodes a message set only grows; a node that reads
\* an Update prints Updates only if its set grew, and none to the sender or
\* to itself; and the gossip ends up, for good, with no Update on its way
\* and every node holding every broadcast value.
C21_GossipQuiesces ==
    /\ [][/\ \A n \in GossipNodes : messages[n] \subseteq messages'[n]
          /\ \A m \in BagToSet(update_msgs) :
                Update(m) =>
                   /\ messages'[m.dest] = messages[m.dest] => Printed = {}
                   /\ \A a \in Printed :
                         /\ a.src = m.dest
                         /\ a.dest \notin {m.src, m.dest}
                         /\ a.messages = messages'[m.dest]]_vars
    /\ <>[](Quiet /\ Converged)

\* C21 witness: on the line n1 - n2 - n3 two values were broadcast at the
\* two ends, n2 forwarded Updates of both ends, no Update is on its way and
\* every node holds both values.
C21_Witness ==
    /\ topology["n2"] = {"n1", "n3"} /\ topology["n1"] = {"n2"}
    /\ asked = {<<"n1", 1>>, <<"n3", 2>>}
    /\ {<<"n2", "n1">>, <<"n2", "n3">>} \subseteq relayed
    /\ Quiet /\ Converged
====
